---- MODULE Spec2Model ----
(***************************************************************************)
(* Model of esrinlutils/utilities.py: the process-wide logging facade      *)
(* (configureLogging, resetLogging, getLogger, the leveled log calls,      *)
(* logException, logToArcGIS, checkModuleImport), getGIS, and the two date *)
(* conversion helpers.                                                     *)
(*                                                                         *)
(* The Python functions call one another (logDebug -> getLogger ->         *)
(* configureLogging -> logInfo -> logToArcGIS -> checkModuleImport ->      *)
(* logDebug ...), so each function is an operator from a program state     *)
(* record to a program state record, and each action of the state machine  *)
(* is one top-level call of one function.  The argument d of an operator   *)
(* is the depth of its Python frame; a call deeper than RecursionLimit     *)
(* raises RecursionError, which propagates through every caller that has   *)
(* no try/except around the call.                                          *)
(***************************************************************************)
EXTENDS Integers, Sequences, FiniteSets, TLC

\* ---------------------------------------------------------------- bounds
MaxSinks == 2          \* sinks ever created in one run
RecursionLimit == 8    \* interpreter frame limit (sys.getrecursionlimit), scaled down

\* ------------------------------------------------------------- constants
None == "None"
Root == "root"         \* logging.getLogger() always returns the root logger

DEBUG == 10
INFO == 20
WARNING == 30
ERROR == 40

LevelNames == {"DEBUG", "INFO", "WARNING", "ERROR"}

\* logging._nameToLevel, as used by setLevel(level) with a level name
LevelNo(name) ==
    CASE name = "DEBUG" -> DEBUG
      [] name = "INFO" -> INFO
      [] name = "WARNING" -> WARNING
      [] name = "WARN" -> WARNING
      [] name = "ERROR" -> ERROR

Paths == {None, "a.log"}
Messages == {"m"}
Exceptions == {"ex"}
ArcGISLevels == {"DEBUG", "INFO", "WARN", "WARNING", "ERROR", "FATAL"}

NoDate == [s |-> <<>>, ms |-> FALSE]
NoStamp == [neg |-> FALSE, digits |-> <<>>, frac |-> 0]

\* ------------------------------------------------------------ the state
VARIABLES
    _logger,        \* module global _logger: None or the root logger
    _logToArcGIS,   \* module global _logToArcGIS
    level,          \* threshold of the root logger
    handlers,       \* root logger's handler list, in attachment order
    nextId,         \* identity of the next sink object created
    closed,         \* identities of the sinks that were closed
    events,         \* what the last call emitted, forwarded, detached, closed
    lastCall,       \* the last call and its arguments
    outcome,        \* how the last call ended: exception raised, value returned
    pre,            \* the logging state the last call started from
    tz,             \* local time zone offset, seconds east of UTC
    dsIn,           \* argument of the last dateStringToTimestamp call
    tsOut,          \* result of the last dateStringToTimestamp call
    chained         \* last timestampToDateString call was given tsOut

vars == <<_logger, _logToArcGIS, level, handlers, nextId, closed, events,
          lastCall, outcome, pre, tz, dsIn, tsOut, chained>>

logVars == <<_logger, _logToArcGIS, level, handlers, nextId, closed>>
dateVars == <<tz, dsIn, tsOut, chained>>

\* The program state as a record threaded through the function operators.
Cur ==
    [logger |-> _logger, flag |-> _logToArcGIS, level |-> level,
     handlers |-> handlers, nextId |-> nextId, closed |-> closed,
     tz |-> tz, events |-> <<>>, raised |-> "", ret |-> None]

Snapshot ==
    [logger |-> _logger, flag |-> _logToArcGIS, level |-> level,
     handlers |-> handlers]

Event(k, h, n, b, tag, msg) ==
    [k |-> k, h |-> h, n |-> n, b |-> b, tag |-> tag, msg |-> msg]

Log(st, e) == [st EXCEPT !.events = Append(@, e)]

Raise(st, exc) == [st EXCEPT !.raised = exc, !.ret = None]

Ok(st) == st.raised = ""

\* ------------------------------------------------- standard logging backend
\* Logger.addHandler of a new FileHandler / StreamHandler with setLevel(lvl)
AddHandler(st, kind, lvl) ==
    [st EXCEPT !.handlers = Append(@, [id |-> st.nextId, kind |-> kind, level |-> lvl]),
               !.nextId = @ + 1]

\* Logger.isEnabledFor on the root logger
isEnabledFor(st, lvl) == lvl >= st.level

RECURSIVE CallHandlers(_, _, _, _)
\* Logger.callHandlers: each attached handler whose own level admits the record
CallHandlers(st, hs, lvl, msg) ==
    IF hs = <<>> THEN st
    ELSE LET h == Head(hs)
             s1 == IF lvl >= h.level
                   THEN Log(st, Event("emit", h.id, lvl, h.kind, "", msg))
                   ELSE st
         IN CallHandlers(s1, Tail(hs), lvl, msg)

\* Logger.debug/info/warning/error/exception: threshold check, then the
\* handlers; with no handler at all, logging.lastResort (stderr, WARNING).
LoggerLog(st, lvl, msg) ==
    IF ~isEnabledFor(st, lvl) THEN st
    ELSE IF st.handlers = <<>>
         THEN IF lvl >= WARNING
              THEN Log(st, Event("emit", 0, lvl, "lastResort", "", msg))
              ELSE st
         ELSE CallHandlers(st, st.handlers, lvl, msg)

\* ------------------------------------------------------- utilities.py
Return(st, value) == [st EXCEPT !.ret = value]

\* Sequencing of two statements: F runs in the state the first one returned
\* in; an exception raised by the first one skips F and propagates.
Then(first, F(_)) == IF Ok(first) THEN F(first) ELSE first

RECURSIVE configureLogging(_, _, _, _, _)
RECURSIVE getLogger(_, _)
RECURSIVE logInfo(_, _, _)
RECURSIVE logDebug(_, _, _)
RECURSIVE logToArcGIS(_, _, _, _)
RECURSIVE checkModuleImport(_, _, _)
RECURSIVE LogAt(_, _, _, _, _)

\* if logFilePath: ... _logger.addHandler(fileHandler)
WithFileHandler(st, logFilePath, lvl) ==
    IF logFilePath # None THEN AddHandler(st, "file", lvl) ELSE st

\* if not _logToArcGIS: ... _logger.addHandler(streamHandler)
WithStreamHandler(st, lvl) ==
    IF ~st.flag THEN AddHandler(st, "console", lvl) ELSE st

configureLogging(st, logFilePath, toArcGIS, lvlName, d) ==
    IF d > RecursionLimit THEN Raise(st, "RecursionError")
    ELSE logInfo([WithStreamHandler(
                     WithFileHandler([st EXCEPT !.flag = toArcGIS, !.logger = Root],
                                     logFilePath, LevelNo(lvlName)),
                     LevelNo(lvlName))
                    EXCEPT !.level = LevelNo(lvlName)],
                 "Logging Created", d + 1)

\* getLogger that configures with the forwarding flag it finds
getLogger_keepsFlag(st, d) ==
    IF d > RecursionLimit THEN Raise(st, "RecursionError")
    ELSE IF st.logger = None
         THEN Then(configureLogging(st, None, st.flag, "DEBUG", d + 1),
                   LAMBDA s1 : Return(s1, s1.logger))
         ELSE Return(st, st.logger)

getLogger(st, d) ==
    IF d > RecursionLimit THEN Raise(st, "RecursionError")
    ELSE IF st.logger = None
         THEN Then(configureLogging(st, None, FALSE, "DEBUG", d + 1),
                   LAMBDA s1 : Return(s1, s1.logger))
         ELSE Return(st, st.logger)

\* The body shared by logError, logWarning, logInfo and logDebug, which
\* differ in the level tested, the Logger method and the tag forwarded.
LogAt(st, lvl, tag, message, d) ==
    IF d > RecursionLimit THEN Raise(st, "RecursionError")
    ELSE Then(getLogger(st, d + 1), LAMBDA s1 :
            IF isEnabledFor(s1, lvl)
            THEN Then(getLogger(s1, d + 1), LAMBDA s2 :
                    logToArcGIS(LoggerLog(s2, lvl, message), message, tag, d + 1))
            ELSE Return(s1, None))

logInfo(st, message, d) == LogAt(st, INFO, "INFO", message, d)

logDebug(st, message, d) == LogAt(st, DEBUG, "DEBUG", message, d)

\* arcpy.AddError / AddWarning / AddMessage
Bucket(lvl) ==
    IF lvl = "ERROR" \/ lvl = "FATAL" THEN "error"
    ELSE IF lvl = "WARN" THEN "warning"
    ELSE "message"

logToArcGIS(st, message, lvl, d) ==
    IF d > RecursionLimit THEN Raise(st, "RecursionError")
    ELSE IF st.flag
         THEN Then(checkModuleImport(st, "arcpy", d + 1), LAMBDA s1 :
                 Return(Log(s1, Event("host", 0, 0, Bucket(lvl), lvl, message)), None))
         ELSE Return(st, None)

\* moduleName in dir() looks at the function's own local names, so the
\* result is False whatever sys.modules holds.
checkModuleImport(st, moduleName, d) ==
    IF d > RecursionLimit THEN Raise(st, "RecursionError")
    ELSE Then(logDebug(st, "checkModuleImport::Start", d + 1), LAMBDA s1 :
            Then(logDebug(s1, "checkModuleImport::End", d + 1), LAMBDA s2 :
               Return(s2, "False")))

logError(st, message, d) == LogAt(st, ERROR, "ERROR", message, d)

logWarning(st, message, d) == LogAt(st, WARNING, "WARN", message, d)

\* logException that forwards the exception before the message
logException_swapped(st, exception, message, d) ==
    IF d > RecursionLimit THEN Raise(st, "RecursionError")
    ELSE Then(getLogger(st, d + 1), LAMBDA s1 :
            Then(logToArcGIS(LoggerLog(s1, ERROR, message), exception, "FATAL", d + 1),
                 LAMBDA s2 : logToArcGIS(s2, message, "FATAL", d + 1)))

logException(st, exception, message, d) ==
    IF d > RecursionLimit THEN Raise(st, "RecursionError")
    ELSE Then(getLogger(st, d + 1), LAMBDA s1 :
            \* getLogger().exception(message) logs at ERROR
            Then(logToArcGIS(LoggerLog(s1, ERROR, message), message, "FATAL", d + 1),
                 LAMBDA s2 : logToArcGIS(s2, exception, "FATAL", d + 1)))

\* _logger.removeHandler(handler); handler.close()
RemoveAndClose(st, handler) ==
    Log(Log([st EXCEPT !.handlers = Tail(@), !.closed = @ \cup {handler.id}],
            Event("removeHandler", handler.id, 0, handler.kind, "", "")),
        Event("close", handler.id, 0, handler.kind, "", ""))

RECURSIVE CloseHandlers(_)
\* the while loop of resetLogging: detach handlers[0], then close it
CloseHandlers(st) ==
    IF Len(st.handlers) > 0
    THEN CloseHandlers(RemoveAndClose(st, st.handlers[1]))
    ELSE st

\* resetLogging with an if in place of the while
resetLogging_once(st, d) ==
    IF d > RecursionLimit THEN Raise(st, "RecursionError")
    ELSE IF st.logger # None
         THEN [(IF Len(st.handlers) > 0 THEN RemoveAndClose(st, st.handlers[1]) ELSE st)
                  EXCEPT !.logger = None, !.ret = None]
         ELSE Return(st, None)

resetLogging(st, d) ==
    IF d > RecursionLimit THEN Raise(st, "RecursionError")
    ELSE IF st.logger # None
         THEN [CloseHandlers(st) EXCEPT !.logger = None, !.ret = None]
         ELSE Return(st, None)

\* ------------------------------------------------------------- getGIS
\* Where the environment can make the body of the try block fail.
GISFailures == {"none", "list", "create", "GIS"}
GISFailMsg == "The GIS object could not be created"

\* profileManager.list(), getpass.getpass(), profileManager.create(...)
GISProfile(st, profileExists, fail, d) ==
    IF fail = "list" THEN Raise(st, "Exception")
    ELSE IF ~profileExists
         THEN IF fail = "create" THEN Raise(st, "Exception")
              ELSE logInfo(st, "Created new profile", d + 1)
         ELSE st

\* arcgis.GIS(...), then the log line that reads gis.properties; a failure
\* of either is the failure "GIS", raised before that line is logged
GISSession(st, fail, d) ==
    IF fail = "GIS" THEN Raise(st, "Exception")
    ELSE Then(logInfo(st, "Successfully signed in", d + 1), LAMBDA s1 :
            Return(s1, "GIS"))

\* The try block of getGIS; an exception leaves it with raised set.
GISTry(st, portalUsername, profileExists, fail, d) ==
    IF portalUsername # None
    THEN Then(logInfo(st, "Signing in using profile", d + 1), LAMBDA s1 :
            Then(GISProfile(s1, profileExists, fail, d), LAMBDA s2 :
               GISSession(s2, fail, d)))
    ELSE Then(logInfo(st, "Signing in using ArcGIS Pro", d + 1), LAMBDA s1 :
            GISSession(s1, fail, d))

\* except Exception as ex: logException(ex, ...); gis = None
GISExcept(tried, d) ==
    IF Ok(tried) THEN tried
    ELSE Return(logException([tried EXCEPT !.raised = ""], tried.raised,
                             GISFailMsg, d + 1),
                None)

getGIS(st, portalUsername, profileExists, fail, d) ==
    IF d > RecursionLimit THEN Raise(st, "RecursionError")
    ELSE Then(logDebug(st, "getGIS::Start", d + 1), LAMBDA s1 :
            Then(GISExcept(GISTry(s1, portalUsername, profileExists, fail, d), d),
                 LAMBDA s2 :
                    Then(logDebug(s2, "getGIS::End", d + 1), LAMBDA s3 :
                       Return(s3, s2.ret))))

\* ------------------------------------------------ date conversion helpers
\* An integer timestamp is kept as Python renders it, f"{timestamp}": a sign
\* and decimal digits (every machine integer here is 32 bits wide, the
\* millisecond values are not).  frac is the thousandths left by /= 1000.
Digit == 0..9

RECURSIVE DigitsOf(_)
DigitsOf(n) == IF n < 10 THEN <<n>> ELSE Append(DigitsOf(n \div 10), n % 10)

\* the integer n as Python holds it
DecOf(n) ==
    [neg |-> n < 0, digits |-> DigitsOf(IF n < 0 THEN 0 - n ELSE n), frac |-> 0]

\* len(f"{timestamp}"): the minus sign is a character of the rendering
NumChars(t) == Len(t.digits) + (IF t.neg THEN 1 ELSE 0)

\* timestamp *= 1000
Times1000(t) ==
    IF t.digits = <<0>> THEN t ELSE [t EXCEPT !.digits = @ \o <<0, 0, 0>>]

\* timestamp /= 1000 (true division: the thousandths are kept)
DivideBy1000(t) ==
    LET n == Len(t.digits)
        pad == IF n < 4 THEN [i \in 1..(4 - n) |-> 0] \o t.digits ELSE t.digits
        m == Len(pad)
    IN [neg |-> t.neg,
        digits |-> SubSeq(pad, 1, m - 3),
        frac |-> 100 * pad[m - 2] + 10 * pad[m - 1] + pad[m]]

RECURSIVE LongDiv(_, _, _, _)
\* schoolbook division of a digit sequence by a machine integer
LongDiv(ds, divisor, q, r) ==
    IF ds = <<>> THEN [q |-> q, r |-> r]
    ELSE LET x == 10 * r + Head(ds)
         IN LongDiv(Tail(ds), divisor, 10 * q + (x \div divisor), x % divisor)

SecondsPerDay == 86400
EpochOrdinal == 719163      \* date(1970, 1, 1).toordinal()

IsLeap(y) == y % 4 = 0 /\ (y % 100 # 0 \/ y % 400 = 0)

DaysInMonth(y, m) ==
    IF m = 2 THEN (IF IsLeap(y) THEN 29 ELSE 28)
    ELSE IF m \in {4, 6, 9, 11} THEN 30 ELSE 31

DaysBeforeYear(y) ==
    (y - 1) * 365 + (y - 1) \div 4 - (y - 1) \div 100 + (y - 1) \div 400

RECURSIVE DaysBeforeMonth(_, _)
DaysBeforeMonth(y, m) ==
    IF m = 1 THEN 0 ELSE DaysBeforeMonth(y, m - 1) + DaysInMonth(y, m - 1)

\* datetime's _ymd2ord
ToOrdinal(date) ==
    DaysBeforeYear(date.y) + DaysBeforeMonth(date.y, date.m) + date.d

RECURSIVE MonthOf(_, _, _)
MonthOf(y, m, n) ==
    IF n < DaysInMonth(y, m) THEN [y |-> y, m |-> m, d |-> n + 1]
    ELSE MonthOf(y, m + 1, n - DaysInMonth(y, m))

\* datetime's _ord2ymd: 400-, 100-, 4- and 1-year cycles
FromOrdinal(ord) ==
    LET n0 == ord - 1
        n400 == n0 \div 146097
        r400 == n0 % 146097
        n100 == r400 \div 36524
        r100 == r400 % 36524
        n4 == r100 \div 1461
        r4 == r100 % 1461
        n1 == r4 \div 365
        r1 == r4 % 365
        year == n400 * 400 + n100 * 100 + n4 * 4 + n1 + 1
    IN IF n1 = 4 \/ n100 = 4
       THEN [y |-> year - 1, m |-> 12, d |-> 31]
       ELSE MonthOf(year, 1, r1)

DigitChar(n) ==
    CASE n = 0 -> "0" [] n = 1 -> "1" [] n = 2 -> "2" [] n = 3 -> "3"
      [] n = 4 -> "4" [] n = 5 -> "5" [] n = 6 -> "6" [] n = 7 -> "7"
      [] n = 8 -> "8" [] n = 9 -> "9"

DigitVal(c) == CHOOSE n \in Digit : DigitChar(n) = c

RECURSIVE FieldVal(_, _)
FieldVal(cs, acc) ==
    IF cs = <<>> THEN acc ELSE FieldVal(Tail(cs), 10 * acc + DigitVal(Head(cs)))

\* datetime.strptime(dateString, "%Y/%m/%d"): four digits of year, then one
\* or two digits of month and of day between the slashes
strptime(dateString) ==
    LET n == Len(dateString)
        j == CHOOSE i \in 6..n : dateString[i] = "/"
    IN [y |-> FieldVal(SubSeq(dateString, 1, 4), 0),
        m |-> FieldVal(SubSeq(dateString, 6, j - 1), 0),
        d |-> FieldVal(SubSeq(dateString, j + 1, n), 0)]

TwoDigits(n) == <<DigitChar(n \div 10), DigitChar(n % 10)>>

\* datetime.strftime(element, "%Y/%m/%d"): zero-padded fields
strftime(date) ==
    TwoDigits(date.y \div 100) \o TwoDigits(date.y % 100) \o <<"/">>
        \o TwoDigits(date.m) \o <<"/">> \o TwoDigits(date.d)

\* datetime.timestamp(element) of a naive datetime: seconds since the epoch
\* of local midnight
timestampOf(date, zone) ==
    (ToOrdinal(date) - EpochOrdinal) * SecondsPerDay - zone

\* datetime.fromtimestamp(timestamp): the local calendar date of the instant,
\* floor of (timestamp + zone) / 86400 days after the epoch
fromtimestamp(t, zone) ==
    LET qr == LongDiv(t.digits, SecondsPerDay, 0, 0)
        exact == qr.r = 0 /\ t.frac = 0
        day == IF ~t.neg THEN qr.q
               ELSE IF exact THEN 0 - qr.q ELSE 0 - qr.q - 1
        sod == IF ~t.neg THEN qr.r
               ELSE IF exact THEN 0
               ELSE SecondsPerDay - qr.r - (IF t.frac > 0 THEN 1 ELSE 0)
        local == sod + zone
    IN FromOrdinal(day + (local \div SecondsPerDay) + EpochOrdinal)

dateStringToTimestamp(st, dateString, returnInMilliseconds, d) ==
    IF d > RecursionLimit THEN Raise(st, "RecursionError")
    ELSE Then(logDebug(st, "dateStringToTimestamp::Start", d + 1), LAMBDA s1 :
            Then(logDebug(s1, "dateStringToTimestamp::End", d + 1), LAMBDA s2 :
               \* round() of a float that holds a whole number
               Return(s2, IF returnInMilliseconds
                          THEN Times1000(DecOf(timestampOf(strptime(dateString), st.tz)))
                          ELSE DecOf(timestampOf(strptime(dateString), st.tz)))))

\* if len(f"{timestamp}") > 10: timestamp /= 1000
SecondsOf(timestamp) ==
    IF NumChars(timestamp) > 10 THEN DivideBy1000(timestamp) ELSE timestamp

\* timestampToDateString that reads the instant in UTC
timestampToDateString_utc(st, timestamp, d) ==
    IF d > RecursionLimit THEN Raise(st, "RecursionError")
    ELSE Then(logDebug(st, "timestampToDateString::Start", d + 1), LAMBDA s1 :
            Then(logDebug(s1, "timestampToDateString::End", d + 1), LAMBDA s2 :
               Return(s2, strftime(fromtimestamp(SecondsOf(timestamp), 0)))))

timestampToDateString(st, timestamp, d) ==
    IF d > RecursionLimit THEN Raise(st, "RecursionError")
    ELSE Then(logDebug(st, "timestampToDateString::Start", d + 1), LAMBDA s1 :
            Then(logDebug(s1, "timestampToDateString::End", d + 1), LAMBDA s2 :
               Return(s2, strftime(fromtimestamp(SecondsOf(timestamp), st.tz)))))

\* ------------------------------------------------------------- actions
Call(op, msg, lvl, path, flag) ==
    [op |-> op, msg |-> msg, lvl |-> lvl, path |-> path, flag |-> flag,
     exc |-> "", user |-> None, fail |-> "none", arg |-> <<>>]

\* Commit the state a call ends in, whether it returned or raised.
Commit(result, call) ==
    \E st \in {result} :
        /\ _logger' = st.logger
        /\ _logToArcGIS' = st.flag
        /\ level' = st.level
        /\ handlers' = st.handlers
        /\ nextId' = st.nextId
        /\ closed' = st.closed
        /\ events' = st.events
        /\ outcome' = [raised |-> st.raised, ret |-> st.ret]
        /\ lastCall' = call
        /\ pre' = Snapshot

\* room for the sinks a call may create
Room(n) == nextId + n <= MaxSinks + 1
AutoRoom == Room(IF _logger = None THEN 1 ELSE 0)

ConfigureLogging ==
    \E p \in Paths, f \in BOOLEAN, l \in LevelNames :
        /\ Room((IF p # None THEN 1 ELSE 0) + (IF f THEN 0 ELSE 1))
        /\ Commit(configureLogging(Cur, p, f, l, 1),
                  Call("configureLogging", "", l, p, f))
        /\ UNCHANGED dateVars

ResetLogging ==
    /\ Commit(resetLogging(Cur, 1), Call("resetLogging", "", "", None, FALSE))
    /\ UNCHANGED dateVars

GetLogger ==
    /\ AutoRoom
    /\ Commit(getLogger(Cur, 1), Call("getLogger", "", "", None, FALSE))
    /\ UNCHANGED dateVars

LogError ==
    \E m \in Messages :
        /\ AutoRoom
        /\ Commit(logError(Cur, m, 1), Call("logError", m, "ERROR", None, FALSE))
        /\ UNCHANGED dateVars

LogWarning ==
    \E m \in Messages :
        /\ AutoRoom
        /\ Commit(logWarning(Cur, m, 1), Call("logWarning", m, "WARNING", None, FALSE))
        /\ UNCHANGED dateVars

LogInfo ==
    \E m \in Messages :
        /\ AutoRoom
        /\ Commit(logInfo(Cur, m, 1), Call("logInfo", m, "INFO", None, FALSE))
        /\ UNCHANGED dateVars

LogDebug ==
    \E m \in Messages :
        /\ AutoRoom
        /\ Commit(logDebug(Cur, m, 1), Call("logDebug", m, "DEBUG", None, FALSE))
        /\ UNCHANGED dateVars

LogException ==
    \E m \in Messages, ex \in Exceptions :
        /\ AutoRoom
        /\ Commit(logException(Cur, ex, m, 1),
                  [Call("logException", m, "FATAL", None, FALSE) EXCEPT !.exc = ex])
        /\ UNCHANGED dateVars

LogToArcGIS ==
    \E m \in Messages, l \in ArcGISLevels :
        /\ AutoRoom
        /\ Commit(logToArcGIS(Cur, m, l, 1), Call("logToArcGIS", m, l, None, FALSE))
        /\ UNCHANGED dateVars

\* The failure point is one the call reaches.
Reaches(user, exists, fail) ==
    CASE fail = "list" -> user # None
      [] fail = "create" -> user # None /\ ~exists
      [] OTHER -> TRUE

GetGIS ==
    \E user \in {None, "user"}, exists \in BOOLEAN, fail \in GISFailures :
        /\ AutoRoom
        /\ Reaches(user, exists, fail)
        /\ user = None => exists
        /\ Commit(getGIS(Cur, user, exists, fail, 1),
                  [Call("getGIS", GISFailMsg, "", None, FALSE)
                      EXCEPT !.user = user, !.fail = fail])
        /\ UNCHANGED dateVars

\* ------------------------------------------------ date helper inputs
TimeZones == {0 - 18000, 0, 3600}

DateStrings ==
    { <<"2","0","2","2","/","0","1","/","1","2">>,
      <<"2","0","2","2","/","1","/","1","2">>,
      <<"2","0","0","0","/","0","2","/","2","9">>,
      <<"1","9","7","0","/","0","1","/","0","1">>,
      <<"1","9","7","0","/","0","2","/","0","1">>,
      <<"1","9","7","0","/","0","4","/","2","6">>,
      <<"1","9","7","0","/","0","4","/","2","7">>,
      <<"1","9","6","9","/","1","2","/","2","1">>,
      <<"1","9","6","9","/","1","2","/","2","0">>,
      <<"1","9","6","9","/","1","2","/","0","1">>,
      <<"1","9","3","0","/","1","1","/","1","8">> }

TimestampInputs ==
    { DecOf(1652800000), Times1000(DecOf(1652800000)),
      DecOf(1000000000), Times1000(DecOf(1000000000)),
      DecOf(999999999),
      [neg |-> FALSE, digits |-> <<1,6,5,2,8,0,0,0,0,0,1,2,3>>, frac |-> 0],
      DecOf(0),
      DecOf(0 - 1234567890), Times1000(DecOf(0 - 1234567890)),
      DecOf(0 - 86400000) }

DateStringToTimestamp ==
    \E ds \in DateStrings, ms \in BOOLEAN :
        /\ AutoRoom
        /\ \E st \in {dateStringToTimestamp(Cur, ds, ms, 1)} :
              /\ Commit([st EXCEPT !.ret = IF Ok(st) THEN "timestamp" ELSE None],
                        [Call("dateStringToTimestamp", "", "", None, ms)
                            EXCEPT !.arg = ds])
              /\ dsIn' = IF Ok(st) THEN [s |-> ds, ms |-> ms] ELSE NoDate
              /\ tsOut' = IF Ok(st) THEN st.ret ELSE NoStamp
        /\ chained' = FALSE
        /\ UNCHANGED tz

TimestampToDateString ==
    \E t \in TimestampInputs \cup (IF tsOut = NoStamp THEN {} ELSE {tsOut}) :
        /\ AutoRoom
        /\ \E st \in {timestampToDateString(Cur, t, 1)} :
              Commit([st EXCEPT !.ret = IF Ok(st) THEN st.ret ELSE <<>>],
                     [Call("timestampToDateString", "", "", None, FALSE)
                         EXCEPT !.arg = t])
        /\ chained' = (tsOut # NoStamp /\ t = tsOut)
        /\ UNCHANGED <<tz, dsIn, tsOut>>

\* The date helpers are called by a script that has either not touched
\* logging yet or has called configureLogging(None, f, l) once.
DateInit ==
    \E zone \in TimeZones, configured \in BOOLEAN, f \in BOOLEAN, l \in {"DEBUG", "INFO"} :
        LET start == [logger |-> None, flag |-> FALSE, level |-> WARNING,
                      handlers |-> <<>>, nextId |-> 1, closed |-> {},
                      tz |-> zone, events |-> <<>>, raised |-> "", ret |-> None]
            st == IF configured THEN configureLogging(start, None, f, l, 1)
                  ELSE start
        IN /\ configured \/ (~f /\ l = "DEBUG")
           /\ _logger = st.logger
           /\ _logToArcGIS = st.flag
           /\ level = st.level
           /\ handlers = st.handlers
           /\ nextId = st.nextId
           /\ closed = st.closed
           /\ events = <<>>
           /\ lastCall = Call("import", "", "", None, FALSE)
           /\ outcome = [raised |-> "", ret |-> None]
           /\ pre = [logger |-> st.logger, flag |-> st.flag, level |-> st.level,
                     handlers |-> st.handlers]
           /\ tz = zone
           /\ dsIn = NoDate
           /\ tsOut = NoStamp
           /\ chained = FALSE

DateNext ==
    \/ DateStringToTimestamp
    \/ TimestampToDateString

DateSpec == DateInit /\ [][DateNext]_vars

Init ==
    /\ _logger = None
    /\ _logToArcGIS = FALSE
    /\ level = WARNING
    /\ handlers = <<>>
    /\ nextId = 1
    /\ closed = {}
    /\ events = <<>>
    /\ lastCall = Call("import", "", "", None, FALSE)
    /\ outcome = [raised |-> "", ret |-> None]
    /\ pre = [logger |-> None, flag |-> FALSE, level |-> WARNING, handlers |-> <<>>]
    /\ tz = 0
    /\ dsIn = NoDate
    /\ tsOut = NoStamp
    /\ chained = FALSE

Next ==
    \/ ConfigureLogging
    \/ ResetLogging
    \/ GetLogger
    \/ LogError
    \/ LogWarning
    \/ LogInfo
    \/ LogDebug
    \/ LogException
    \/ LogToArcGIS
    \/ GetGIS

Spec == Init /\ [][Next]_vars

\* ------------------------------------------------------------ properties
LogOps == {"logDebug", "logInfo", "logWarning", "logError"}

Returned == outcome.raised = ""

\* the host entries of the last call, as <<bucket, message>> pairs
HostEntries == SelectSeq(events, LAMBDA e : e.k = "host")
HostPairs == [i \in 1..Len(HostEntries) |-> <<HostEntries[i].b, HostEntries[i].msg>>]

\* the records of message msg the last call handed to sink h
Emits(h, msg) ==
    {j \in 1..Len(events) :
        events[j].k = "emit" /\ events[j].h = h /\ events[j].msg = msg}

\* C1: whenever the host-forwarding flag is true, no console sink is
\* attached to the process-wide logger.
C1_NoConsoleSinkWhileForwarding ==
    _logToArcGIS => \A i \in 1..Len(handlers) : handlers[i].kind # "console"

\* C2: a log call at level L under threshold T reaches every attached sink
\* if L >= T, and reaches no sink and is forwarded nowhere if L < T.
C2_EmittedIffPermitted ==
    lastCall.op \in LogOps =>
        IF LevelNo(lastCall.lvl) >= level
        THEN \A i \in 1..Len(handlers) : Emits(handlers[i].id, lastCall.msg) # {}
        ELSE \A j \in 1..Len(events) : events[j].msg # lastCall.msg

\* C3 as stated: logException produces exactly two host entries, the message
\* and then the exception, both in the error bucket, in every state.
C3_AlwaysTwoEntries ==
    lastCall.op = "logException" =>
        HostPairs = << <<"error", lastCall.msg>>, <<"error", lastCall.exc>> >>

\* C3 as amended: logException forwards nothing when the forwarding flag is
\* false once the logger exists; with the flag true and a threshold above
\* DEBUG it returns after exactly two host entries, the message and then
\* the exception, both in the error bucket; with the flag true and
\* threshold DEBUG it ends in RecursionError with nothing forwarded.
C3_TwoEntriesWhenForwarding ==
    lastCall.op = "logException" =>
        IF ~_logToArcGIS
        THEN Returned /\ HostPairs = <<>>
        ELSE IF level = DEBUG
             THEN outcome.raised = "RecursionError" /\ HostPairs = <<>>
             ELSE /\ Returned
                  /\ HostPairs = << <<"error", lastCall.msg>>,
                                    <<"error", lastCall.exc>> >>

C3_Witness ==
    /\ lastCall.op = "logException"
    /\ _logToArcGIS
    /\ level = ERROR
    /\ Len(HostEntries) = 2

\* what detaching and closing hs one sink at a time, first attached first,
\* leaves in the trace
ResetTrace(hs) ==
    [i \in 1..(2 * Len(hs)) |->
        IF i % 2 = 1
        THEN Event("removeHandler", hs[(i + 1) \div 2].id, 0, hs[(i + 1) \div 2].kind, "", "")
        ELSE Event("close", hs[i \div 2].id, 0, hs[i \div 2].kind, "", "")]

\* C4: resetLogging on an existing logger detaches and then closes every
\* sink, one at a time in attachment order, and clears the handle; no sink
\* closed by a reset is attached to the logger a later getLogger returns.
C4_ResetDetachesInOrder ==
    /\ (lastCall.op = "resetLogging" /\ pre.logger # None) =>
          /\ events = ResetTrace(pre.handlers)
          /\ handlers = <<>>
          /\ _logger = None
          /\ \A i \in 1..Len(pre.handlers) : pre.handlers[i].id \in closed
    /\ (lastCall.op = "getLogger") =>
          /\ outcome.ret = Root
          /\ \A i \in 1..Len(handlers) : handlers[i].id \notin closed

C4_Witness ==
    /\ lastCall.op = "resetLogging"
    /\ Len(pre.handlers) = 2
    /\ Len(events) = 4
    /\ _logger = None

\* C5: getLogger without a handle leaves a logger with one console sink, no
\* file sink, threshold DEBUG and forwarding off; getLogger with a handle
\* returns it and changes no sink, threshold or flag; a log call made
\* without a handle leaves forwarding off.
C5_GetLoggerDefaults ==
    /\ lastCall.op = "getLogger" =>
          /\ Returned
          /\ outcome.ret = _logger
          /\ IF pre.logger = None
             THEN /\ _logger = Root
                  /\ Len(handlers) = 1
                  /\ handlers[1].kind = "console"
                  /\ level = DEBUG
                  /\ ~_logToArcGIS
             ELSE /\ _logger = pre.logger
                  /\ handlers = pre.handlers
                  /\ level = pre.level
                  /\ _logToArcGIS = pre.flag
    /\ (lastCall.op \in LogOps /\ pre.logger = None) => ~_logToArcGIS

C5_Witness ==
    /\ lastCall.op = "getLogger"
    /\ pre.logger = None
    /\ pre.flag
    /\ closed # {}
    /\ ~_logToArcGIS

\* the bucket C6 gives each level string
ClaimedBucket(lvl) ==
    IF lvl \in {"ERROR", "FATAL"} THEN "error"
    ELSE IF lvl = "WARNING" THEN "warning"
    ELSE "message"

\* C6: logToArcGIS forwards nothing when the flag is false; when it is true
\* it sends exactly one entry, to the error bucket for ERROR and FATAL, the
\* warning bucket for WARNING, the message bucket for INFO and DEBUG; and a
\* logWarning message reaches the warning bucket.  Stated for the thresholds
\* above DEBUG, where the re-entry of C10 cannot occur, so that what is
\* tested is the routing.
C6_HostRouting ==
    level > DEBUG =>
        /\ lastCall.op = "logToArcGIS" =>
              IF ~pre.flag
              THEN HostPairs = <<>>
              ELSE lastCall.lvl \in {"DEBUG", "INFO", "WARNING", "ERROR", "FATAL"} =>
                      HostPairs = << <<ClaimedBucket(lastCall.lvl), lastCall.msg>> >>
        /\ (lastCall.op = "logWarning" /\ _logToArcGIS /\ WARNING >= level) =>
              HostPairs = << <<"warning", lastCall.msg>> >>

\* C7: getGIS never propagates a failure: when profile lookup, profile
\* creation or session construction fails it calls logException and returns
\* None, and when nothing fails it returns the session object.
C7_GetGISNeverPropagates ==
    lastCall.op = "getGIS" =>
        /\ Returned
        /\ IF lastCall.fail # "none"
           THEN /\ outcome.ret = None
                /\ \E j \in 1..Len(events) :
                      events[j].k = "emit" /\ events[j].msg = GISFailMsg
           ELSE outcome.ret = "GIS"

RoundTripped ==
    /\ lastCall.op = "timestampToDateString"
    /\ chained
    /\ dsIn.ms
    /\ Returned

\* the date string has two-digit month and day, as %Y/%m/%d writes a date
ZeroPadded(s) == Len(s) = 10

\* C8 as stated: for every calendar date d written in the format %Y/%m/%d,
\* converting d to a millisecond timestamp and back returns d.
C8_RoundTrip == (RoundTripped /\ ZeroPadded(dsIn.s)) => outcome.ret = dsIn.s

\* C8 as amended: for every zero-padded date d whose millisecond timestamp
\* is written with more than 10 characters, converting d to that timestamp
\* and back returns d.
C8_RoundTripLongStamps ==
    (RoundTripped /\ ZeroPadded(dsIn.s) /\ NumChars(tsOut) > 10) =>
        outcome.ret = dsIn.s

C8_Witness ==
    /\ RoundTripped
    /\ ZeroPadded(dsIn.s)
    /\ NumChars(tsOut) > 10
    /\ tz # 0
    /\ outcome.ret = dsIn.s

\* C9: timestampToDateString treats its argument as milliseconds exactly
\* when it has more than 10 decimal digits, and as seconds otherwise.
C9_MillisecondsIffOverTenDigits ==
    (lastCall.op = "timestampToDateString" /\ Returned) =>
        outcome.ret =
            strftime(fromtimestamp(IF Len(lastCall.arg.digits) > 10
                                   THEN DivideBy1000(lastCall.arg)
                                   ELSE lastCall.arg, tz))

\* C10: with forwarding on, every permitted log call, and the announcement
\* of configureLogging, returns having handed the message once to each sink
\* that admits it and having forwarded exactly one host entry, for it.
C10_OneHostEntryPerPermittedCall ==
    LET msg == IF lastCall.op = "configureLogging" THEN "Logging Created"
               ELSE lastCall.msg
        L == IF lastCall.op = "configureLogging" THEN INFO
             ELSE LevelNo(lastCall.lvl)
    IN (lastCall.op \in LogOps \cup {"configureLogging"} /\ _logToArcGIS /\ L >= level) =>
          /\ Returned
          /\ Len(HostEntries) = 1
          /\ HostEntries[1].msg = msg
          /\ \A i \in 1..Len(handlers) :
                Cardinality(Emits(handlers[i].id, msg)) <= 1

====
